---- MODULE Spec2Model ----
(***************************************************************************)
(* Model of pgp-disc:                                                      *)
(*   crates/transport/src/lib.rs  start_gateway, fetch_messages            *)
(*   crates/crypto/src/gpg.rs     available, version_line,                 *)
(*                                list_secret_fingerprints,                *)
(*                                parse_colons_fprs                        *)
(* The three components do not interact; each has its own specification    *)
(* (GatewaySpec, FetchSpec, GpgSpec) that holds the other two idle.        *)
(***************************************************************************)
EXTENDS Integers, Sequences, FiniteSets, TLC

VARIABLES
    \* ---- start_gateway: the spawned task, the mpsc queue, the consumer
    tpc,        \* task position: "next" (in next_event().await),
                \* "send" (in tx.send(ev).await), "ended"
    pos,        \* number of items the task has taken from the stream
    lastItem,   \* kind of the item taken last ("none" before the first)
    pending,    \* <<ev>> while the task is inside tx.send(ev).await
    queue,      \* buffered ChatEvents of the mpsc channel, head first
    txDropped,  \* the Sender was dropped (the task's future completed)
    rxClosed,   \* the Receiver was dropped by the consumer
    errors,     \* number of "Gateway receive error" lines logged
    created,    \* history: ChatEvents built from MessageCreate, stream order
    received,   \* history: what rx.recv() returned as Some(ev), in order
    dropped,    \* history: events whose send returned Err (discarded)
    gotEnd,     \* rx.recv() has returned None
    \* ---- fetch_messages
    nmsgs,      \* the channel holds the messages with ids 1..nmsgs
    limit,      \* the `limit` argument
    out,        \* Vec<Message> accumulated so far, newest first; a message
                \* is held by its id, Message(id) gives its fields
    before,     \* Option<Id>: <<>> is None, <<b>> is Some(b)
    fpc,        \* "loop" while in the while loop, "done" after return
    fret,       \* the returned Result
    requests,   \* history: the requests issued, in order
    quirksLeft, \* how many more answers of the remote source may depart from
                \* the truthful one
    \* ---- gpg.rs
    text,       \* what gpg writes to standard output (sequence of chars)
    gpc,        \* "start", "parsing" (inside parse_colons_fprs), "done"
    gop,        \* the function that was called
    outcome,    \* what Command::output() produced
    lineNo,     \* number of lines the for loop has consumed
    res,        \* the Vec<String> being built
    gret        \* the returned Result

gatewayVars == <<tpc, pos, lastItem, pending, queue, txDropped, rxClosed,
                 errors, created, received, dropped, gotEnd>>
fetchVars == <<nmsgs, limit, out, before, fpc, fret, requests, quirksLeft>>
gpgVars == <<text, gpc, gop, outcome, lineNo, res, gret>>
vars == <<gatewayVars, fetchVars, gpgVars>>

-----------------------------------------------------------------------------
(* Bounds of the model.                                                    *)

\* Items the gateway stream delivers before it can only end.
MaxItems == 6
\* Capacity of the mpsc queue. The code builds mpsc::channel(1000)
\* (lib.rs:29); the model keeps the queue bounded and small so that the
\* full queue is reached.
Capacity == 2
\* Messages the remote channel holds, and the largest `limit` asked for.
MaxMsgs == 205
MaxLimit == 205
\* Answers of the remote source that may depart from the truthful one in a
\* fetch against an unreliable source.
MaxQuirks == 2
\* Lines of the text gpg writes to standard output.
MaxLines == 3

-----------------------------------------------------------------------------
(* Shared data shapes.                                                     *)

Some(x) == <<x>>
None == <<>>

Range(f) == {f[i] : i \in DOMAIN f}

Reverse(s) == [i \in 1..Len(s) |-> s[Len(s) + 1 - i]]

\* The remote message with identifier n. Identifiers grow with time; the
\* content is taken distinct per message so that events can be told apart.
Message(n) ==
    [id |-> n, channel_id |-> 1, author_id |-> 1 + (n % 2),
     author_name |-> IF n % 2 = 0 THEN "alice" ELSE "bob", content |-> n]

\* ChatEvent { channel_id, author_id, author, content }: the id is not kept.
convert_message_create(msg) ==
    [channel_id |-> msg.channel_id, author_id |-> msg.author_id,
     author |-> msg.author_name, content |-> msg.content]

-----------------------------------------------------------------------------
(* start_gateway                                                           *)

ItemKinds == {"message_create", "other", "error", "end"}

GatewayInit ==
    /\ tpc = "next"
    /\ pos = 0
    /\ lastItem = "none"
    /\ pending = None
    /\ queue = <<>>
    /\ txDropped = FALSE
    /\ rxClosed = FALSE
    /\ errors = 0
    /\ created = <<>>
    /\ received = <<>>
    /\ dropped = <<>>
    /\ gotEnd = FALSE

\* mpsc push: a sent value goes to the back of the buffer.
Enqueue_Front(q, ev) == <<ev>> \o q

Enqueue(q, ev) == Append(q, ev)

\* Where the loop goes after one item: `while let Some(item)` fails on the
\* end of the stream, an Err is logged and skipped with `continue`, an
\* event that is not MessageCreate falls through to the next iteration,
\* and a MessageCreate enters tx.send(ev).await.
NextPc_BreakOnError(item) ==
    CASE item = "end" -> "ended"
      [] item = "error" -> "ended"
      [] item = "other" -> "next"
      [] item = "message_create" -> "send"

NextPc(item) ==
    CASE item = "end" -> "ended"
      [] item = "error" -> "next"
      [] item = "other" -> "next"
      [] item = "message_create" -> "send"

\* The spawned future owns tx (async move): tx is dropped exactly when the
\* future completes, which closes the queue on the sending side.
SenderDropped_KeptAlive(pc) == FALSE

SenderDropped(pc) == pc = "ended"

\* What the loop does with one item of shard.next_event(..).await.
TaskNextEvent(item) ==
    /\ tpc = "next"
    /\ item = "end" \/ pos < MaxItems
    /\ lastItem' = item
    /\ tpc' = NextPc(item)
    /\ txDropped' = SenderDropped(NextPc(item))
    /\ pos' = IF item = "end" THEN pos ELSE pos + 1
    /\ errors' = IF item = "error" THEN errors + 1 ELSE errors
    /\ IF item = "message_create"
         THEN /\ pending' = Some(convert_message_create(Message(pos + 1)))
              /\ created' =
                    Append(created, convert_message_create(Message(pos + 1)))
         ELSE UNCHANGED <<pending, created>>
    /\ UNCHANGED <<queue, rxClosed, received, dropped, gotEnd>>
    /\ UNCHANGED <<fetchVars, gpgVars>>

\* The same with try_send in place of send(..).await: a full queue is an
\* error like a closed one.
SendCompletes_TrySend ==
    /\ tpc = "send"
    /\ IF rxClosed \/ Len(queue) >= Capacity
         THEN /\ dropped' = Append(dropped, pending[1])
              /\ UNCHANGED queue
         ELSE /\ queue' = Enqueue(queue, pending[1])
              /\ UNCHANGED dropped
    /\ pending' = None
    /\ tpc' = "next"
    /\ UNCHANGED <<pos, lastItem, txDropped, rxClosed, errors, created,
                   received, gotEnd>>
    /\ UNCHANGED <<fetchVars, gpgVars>>

\* The same with the loop left when the send fails:
\* if tx.send(ev).await.is_err() { break; }
SendCompletes_BreakOnClosed ==
    /\ tpc = "send"
    /\ rxClosed \/ Len(queue) < Capacity
    /\ IF rxClosed
         THEN /\ dropped' = Append(dropped, pending[1])
              /\ tpc' = "ended"
              /\ txDropped' = TRUE
              /\ UNCHANGED queue
         ELSE /\ queue' = Enqueue(queue, pending[1])
              /\ tpc' = "next"
              /\ UNCHANGED <<dropped, txDropped>>
    /\ pending' = None
    /\ UNCHANGED <<pos, lastItem, rxClosed, errors, created, received, gotEnd>>
    /\ UNCHANGED <<fetchVars, gpgVars>>

\* tx.send(ev).await completes: Err when the receiver is gone (the result
\* is discarded by `let _ =`), Ok once the buffer has a free slot.
SendCompletes ==
    /\ tpc = "send"
    /\ rxClosed \/ Len(queue) < Capacity
    /\ IF rxClosed
         THEN /\ dropped' = Append(dropped, pending[1])
              /\ UNCHANGED queue
         ELSE /\ queue' = Enqueue(queue, pending[1])
              /\ UNCHANGED dropped
    /\ pending' = None
    /\ tpc' = "next"
    /\ UNCHANGED <<pos, lastItem, txDropped, rxClosed, errors, created,
                   received, gotEnd>>
    /\ UNCHANGED <<fetchVars, gpgVars>>

\* The consumer's rx.recv().await completes: Some(head) when the buffer is
\* not empty, None when it is empty and the sender is gone.
ConsumerRecv ==
    /\ ~rxClosed
    /\ ~gotEnd
    /\ queue # <<>> \/ txDropped
    /\ IF queue # <<>>
         THEN /\ received' = Append(received, Head(queue))
              /\ queue' = Tail(queue)
              /\ UNCHANGED gotEnd
         ELSE /\ gotEnd' = TRUE
              /\ UNCHANGED <<received, queue>>
    /\ UNCHANGED <<tpc, pos, lastItem, pending, txDropped, rxClosed, errors,
                   created, dropped>>
    /\ UNCHANGED <<fetchVars, gpgVars>>

\* The consumer drops the Receiver: the channel closes and what is still
\* buffered is discarded.
ConsumerDrop ==
    /\ ~rxClosed
    /\ rxClosed' = TRUE
    /\ queue' = <<>>
    /\ UNCHANGED <<tpc, pos, lastItem, pending, txDropped, errors, created,
                   received, dropped, gotEnd>>
    /\ UNCHANGED <<fetchVars, gpgVars>>

GatewayNext ==
    \/ \E item \in ItemKinds : TaskNextEvent(item)
    \/ SendCompletes
    \/ ConsumerRecv
    \/ ConsumerDrop

-----------------------------------------------------------------------------
(* fetch_messages                                                          *)

\* The per-request maximum: `remaining.min(100)`.
PageMax == 100

Min(a, b) == IF a < b THEN a ELSE b

\* let remaining = limit - out.len(); let batch_size = remaining.min(100)
BatchSize_AlwaysPage(lim, have) == PageMax

BatchSize(lim, have) == Min(lim - have, PageMax)

\* The remote source answering truthfully: the newest messages strictly
\* older than the anchor (all of them without an anchor), at most n of
\* them, newest first. Each message is named by its id.
HonestBatch(anchor, n) ==
    LET top == IF anchor = None THEN nmsgs ELSE Min(anchor[1] - 1, nmsgs)
        k == Min(n, top)
    IN [i \in 1..k |-> top + 1 - i]

\* Decoded batches that depart from the truthful one: a page shorter than
\* the source could fill (empty, one message, one short), a page of one
\* message more than asked for, and the truthful page oldest first.
QuirkyBatches(anchor, n) ==
    LET h == HonestBatch(anchor, n)
        longer == HonestBatch(anchor, n + 1)
    IN {[ok |-> TRUE, kind |-> "short", batch |-> SubSeq(h, 1, k)] :
            k \in {0, 1, Len(h) - 1} \cap 0..(Len(h) - 1)}
       \cup (IF Len(longer) > n
               THEN {[ok |-> TRUE, kind |-> "over", batch |-> longer]}
               ELSE {})
       \cup (IF Len(h) > 1
               THEN {[ok |-> TRUE, kind |-> "reversed", batch |-> Reverse(h)]}
               ELSE {})

\* What one request can come back with: a decoded batch, a transport error
\* (the first map_err) or a decoding error (the second map_err).
Responses(anchor, n) ==
    {[ok |-> TRUE, kind |-> "full", batch |-> HonestBatch(anchor, n)],
     [ok |-> FALSE, kind |-> "error", err |-> "Discord HTTP error"],
     [ok |-> FALSE, kind |-> "error", err |-> "Discord HTTP model error"]}
    \cup (IF quirksLeft > 0 THEN QuirkyBatches(anchor, n) ELSE {})

\* while out.len() < limit
LoopContinues_Inclusive(have, lim) == have <= lim

LoopContinues(have, lim) == have < lim

\* smallest id of a non-empty batch
OldestIn(batch) ==
    CHOOSE m \in Range(batch) : \A k \in Range(batch) : m <= k

\* let oldest_id = batch.last().unwrap().id; before = Some(oldest_id)
NextBefore_First(batch) == Some(Message(batch[1]).id)

NextBefore(batch) == Some(Message(batch[Len(batch)]).id)

\* out.reverse(); Ok(out.into_iter().map(|m| ChatEvent {..}).collect())
Finish_NoReverse(acc) ==
    [ok |-> TRUE, val |-> [i \in 1..Len(acc) |-> convert_message_create(Message(acc[i]))]]

Finish(acc) ==
    [ok |-> TRUE,
     val |-> [i \in 1..Len(acc) |->
                convert_message_create(Message(Reverse(acc)[i]))]]

\* `?` on a failed request: the function returns the error; `out` is lost.
OnRequestError_Partial(acc, e) == Finish(acc)

OnRequestError(acc, e) == [ok |-> FALSE, err |-> e]

FetchInit ==
    /\ nmsgs \in 0..MaxMsgs
    /\ limit \in 0..MaxLimit
    /\ out = <<>>
    /\ before = None
    /\ fpc = "loop"
    /\ fret = None
    /\ requests = <<>>
    /\ quirksLeft = 0

\* fetch_messages against a source that may answer with short, over-long or
\* wrongly ordered pages; the channel holds more than any limit asks for, so
\* the source runs out only by answering so.
UnreliableFetchInit ==
    /\ nmsgs = MaxMsgs + 1
    /\ limit \in 0..MaxLimit
    /\ out = <<>>
    /\ before = None
    /\ fpc = "loop"
    /\ fret = None
    /\ requests = <<>>
    /\ quirksLeft = MaxQuirks

\* One iteration of `while out.len() < limit`: one request and what the
\* loop body does with its answer.
FetchIterate(resp) ==
    /\ fpc = "loop"
    /\ LoopContinues(Len(out), limit)
    /\ resp \in Responses(before, BatchSize(limit, Len(out)))
    /\ requests' = Append(requests,
                      [before |-> before,
                       limit |-> BatchSize(limit, Len(out)),
                       ok |-> resp.ok,
                       kind |-> resp.kind,
                       got |-> IF resp.ok THEN Len(resp.batch) ELSE 0,
                       last |-> IF resp.ok /\ resp.batch # <<>>
                                  THEN resp.batch[Len(resp.batch)] ELSE 0,
                       oldest |-> IF resp.ok /\ resp.batch # <<>>
                                    THEN OldestIn(resp.batch) ELSE 0])
    /\ quirksLeft' = IF resp.kind \in {"full", "error"}
                       THEN quirksLeft ELSE quirksLeft - 1
    /\ IF ~resp.ok
         THEN /\ fpc' = "done"
              /\ fret' = Some(OnRequestError(out, resp.err))
              /\ UNCHANGED <<out, before>>
         ELSE IF resp.batch = <<>>
         THEN \* break
              /\ fpc' = "done"
              /\ fret' = Some(Finish(out))
              /\ UNCHANGED <<out, before>>
         ELSE /\ before' = NextBefore(resp.batch)
              /\ out' = out \o resp.batch
              /\ UNCHANGED <<fpc, fret>>
    /\ UNCHANGED <<nmsgs, limit>>
    /\ UNCHANGED <<gatewayVars, gpgVars>>

\* The loop condition fails: reverse, convert, return.
FetchReturn ==
    /\ fpc = "loop"
    /\ ~LoopContinues(Len(out), limit)
    /\ fpc' = "done"
    /\ fret' = Some(Finish(out))
    /\ UNCHANGED <<nmsgs, limit, out, before, requests, quirksLeft>>
    /\ UNCHANGED <<gatewayVars, gpgVars>>

FetchNext ==
    \/ \E resp \in Responses(before, BatchSize(limit, Len(out))) :
          FetchIterate(resp)
    \/ FetchReturn

-----------------------------------------------------------------------------
(* gpg.rs: strings are sequences of characters                             *)

\* Byte value of the characters the model uses: String's Ord compares
\* byte by byte.
CharCode ==
    ("\t" :> 9) @@ ("\n" :> 10) @@ ("\r" :> 13) @@ (" " :> 32) @@
    (":" :> 58) @@ ("A" :> 65) @@ ("B" :> 66) @@ ("d" :> 100) @@
    ("f" :> 102) @@ ("i" :> 105) @@ ("p" :> 112) @@ ("r" :> 114) @@
    ("u" :> 117)

\* char::is_whitespace, on the characters of the model
IsWhitespace(c) == c \in {" ", "\t", "\n", "\r"}

RECURSIVE TrimStart(_)
TrimStart(s) ==
    IF s # <<>> /\ IsWhitespace(Head(s)) THEN TrimStart(Tail(s)) ELSE s

RECURSIVE TrimEnd(_)
TrimEnd(s) ==
    IF s # <<>> /\ IsWhitespace(s[Len(s)])
      THEN TrimEnd(SubSeq(s, 1, Len(s) - 1))
      ELSE s

\* str::trim
Trim(s) == TrimEnd(TrimStart(s))

\* str::split(sep): the pieces between the separators, empty ones kept;
\* a string without separator is one piece.
RECURSIVE SplitFrom(_, _, _)
SplitFrom(s, sep, cur) ==
    IF s = <<>> THEN <<cur>>
    ELSE IF Head(s) = sep THEN <<cur>> \o SplitFrom(Tail(s), sep, <<>>)
    ELSE SplitFrom(Tail(s), sep, Append(cur, Head(s)))

Split(s, sep) == SplitFrom(s, sep, <<>>)

\* one line of str::lines without its terminator: a final "\r" goes with it
StripCr(l) ==
    IF l # <<>> /\ l[Len(l)] = "\r" THEN SubSeq(l, 1, Len(l) - 1) ELSE l

\* str::lines: split at "\n"; what follows the last "\n" is a line only
\* when it is not empty; "\r\n" ends a line as "\n" does.
Lines(s) ==
    LET pieces == Split(s, "\n")
        kept == IF pieces[Len(pieces)] = <<>>
                  THEN SubSeq(pieces, 1, Len(pieces) - 1)
                  ELSE pieces
    IN [i \in 1..Len(kept) |-> StripCr(kept[i])]

\* str::starts_with
StartsWith(s, prefix) ==
    Len(s) >= Len(prefix) /\ SubSeq(s, 1, Len(prefix)) = prefix

\* a < b for Strings: the first differing byte decides, a proper prefix
\* is smaller.
RECURSIVE StrLess(_, _)
StrLess(a, b) ==
    IF b = <<>> THEN FALSE
    ELSE IF a = <<>> THEN TRUE
    ELSE IF Head(a) = Head(b) THEN StrLess(Tail(a), Tail(b))
    ELSE CharCode[Head(a)] < CharCode[Head(b)]

\* Vec::sort (stable): insertion of each element after those not greater
RECURSIVE InsertSorted(_, _)
InsertSorted(sorted, x) ==
    IF sorted = <<>> THEN <<x>>
    ELSE IF StrLess(x, Head(sorted)) THEN <<x>> \o sorted
    ELSE <<Head(sorted)>> \o InsertSorted(Tail(sorted), x)

RECURSIVE SortFrom(_, _)
SortFrom(s, acc) ==
    IF s = <<>> THEN acc ELSE SortFrom(Tail(s), InsertSorted(acc, Head(s)))

Sort_None(s) == s

Sort(s) == SortFrom(s, <<>>)

\* Vec::dedup: of each run of equal consecutive elements the first is kept
RECURSIVE Dedup(_)
Dedup(s) ==
    IF Len(s) < 2 THEN s
    ELSE IF s[1] = s[2] THEN Dedup(Tail(s))
    ELSE <<s[1]>> \o Dedup(Tail(s))

FprPrefix == <<"f", "p", "r", ":">>

\* What the body of the for loop pushes for one line.
LinePush_KeepEmpty(line) ==
    IF StartsWith(line, FprPrefix)
      THEN LET parts == Split(line, ":")
           IN IF Len(parts) > 9 THEN <<Trim(parts[10])>> ELSE <<>>
      ELSE <<>>

LinePush(line) ==
    IF StartsWith(line, FprPrefix)
      THEN LET parts == Split(line, ":")
           IN IF Len(parts) > 9
                THEN LET fpr == Trim(parts[10])
                     IN IF fpr # <<>> THEN <<fpr>> ELSE <<>>
                ELSE <<>>
      ELSE <<>>

\* What Command::new("gpg")...output() can produce: the process ran and
\* exited with zero or not, or it could not be run.
Outcomes ==
    {"exit_zero", "exit_nonzero", "not_found", "permission_denied",
     "other_io_error"}

Ran(o) == o \in {"exit_zero", "exit_nonzero"}

Ok(v) == [ok |-> TRUE, val |-> v]
Err(e) == [ok |-> FALSE, err |-> e]

available_NotFoundIsError(o) ==
    CASE Ran(o) -> Ok(o = "exit_zero")
      [] OTHER -> Err("Failed to run gpg")

available(o) ==
    CASE Ran(o) -> Ok(o = "exit_zero")
      [] o = "not_found" -> Ok(FALSE)
      [] OTHER -> Err("Failed to run gpg")

version_line_EmptyOnFailure(o, stdout) ==
    CASE o # "exit_zero" -> Ok(<<>>)
      [] OTHER -> Ok(IF Lines(stdout) = <<>> THEN <<>> ELSE Lines(stdout)[1])

version_line(o, stdout) ==
    CASE ~Ran(o) -> Err("Failed to run gpg")
      [] o = "exit_nonzero" -> Err("gpg --version failed")
      [] OTHER -> Ok(IF Lines(stdout) = <<>> THEN <<>> ELSE Lines(stdout)[1])

\* ---- inputs: the standard output gpg may write

Colons(n) == [i \in 1..n |-> ":"]

\* tag, n colons, a value, a tail: Rec(<<"f","p","r">>, 9, v, <<":">>) is
\* the line fpr:::::::::v: whose 10th field is v.
Rec(tag, n, value, tail) == tag \o Colons(n) \o value \o tail

LineChoices ==
    {Rec(<<"f", "p", "r">>, 9, <<"A">>, <<":">>),
     Rec(<<"f", "p", "r">>, 9, <<"B">>, <<":">>),
     Rec(<<"f", "p", "r">>, 9, <<"A", "B">>, <<>>),
     Rec(<<"f", "p", "r">>, 9, <<" ", "A", " ">>, <<":">>),
     Rec(<<"f", "p", "r">>, 9, <<" ">>, <<":">>),
     Rec(<<"f", "p", "r">>, 9, <<>>, <<":">>),
     Rec(<<"f", "p", "r">>, 8, <<"A">>, <<>>),
     Rec(<<"f", "p", "r">>, 9, <<"B">>, <<"\r">>),
     Rec(<<"u", "i", "d">>, 9, <<"B">>, <<":">>)}

RECURSIVE JoinLines(_)
JoinLines(ls) ==
    IF ls = <<>> THEN <<>> ELSE Head(ls) \o <<"\n">> \o JoinLines(Tail(ls))

\* every text of at most MaxLines lines, each ended by "\n"
Texts ==
    {JoinLines(ls) : ls \in UNION {[1..n -> LineChoices] : n \in 0..MaxLines}}

GpgInit ==
    /\ text \in Texts
    /\ gpc = "start"
    /\ gop = "none"
    /\ outcome = "none"
    /\ lineNo = 0
    /\ res = <<>>
    /\ gret = None

\* pub fn available()
Available(o) ==
    /\ gpc = "start"
    /\ gop' = "available"
    /\ outcome' = o
    /\ gret' = Some(available(o))
    /\ gpc' = "done"
    /\ UNCHANGED <<text, lineNo, res>>
    /\ UNCHANGED <<gatewayVars, fetchVars>>

\* pub fn version_line()
VersionLine(o) ==
    /\ gpc = "start"
    /\ gop' = "version_line"
    /\ outcome' = o
    /\ gret' = Some(version_line(o, text))
    /\ gpc' = "done"
    /\ UNCHANGED <<text, lineNo, res>>
    /\ UNCHANGED <<gatewayVars, fetchVars>>

\* pub fn list_secret_fingerprints(), up to the call of parse_colons_fprs
ListSecretFingerprints(o) ==
    /\ gpc = "start"
    /\ gop' = "list_secret_fingerprints"
    /\ outcome' = o
    /\ CASE ~Ran(o) ->
              /\ gret' = Some(Err("Failed to run gpg"))
              /\ gpc' = "done"
         [] o = "exit_nonzero" ->
              /\ gret' = Some(Err("gpg list-secret-keys failed"))
              /\ gpc' = "done"
         [] OTHER ->
              /\ gpc' = "parsing"
              /\ UNCHANGED gret
    /\ UNCHANGED <<text, lineNo, res>>
    /\ UNCHANGED <<gatewayVars, fetchVars>>

\* parse_colons_fprs: one turn of `for line in colons.lines()`
ParseLine ==
    /\ gpc = "parsing"
    /\ lineNo < Len(Lines(text))
    /\ res' = res \o LinePush(Lines(text)[lineNo + 1])
    /\ lineNo' = lineNo + 1
    /\ UNCHANGED <<text, gpc, gop, outcome, gret>>
    /\ UNCHANGED <<gatewayVars, fetchVars>>

\* parse_colons_fprs after the loop: res.sort(); res.dedup(); res, which
\* list_secret_fingerprints returns as Ok
ParseFinish ==
    /\ gpc = "parsing"
    /\ lineNo = Len(Lines(text))
    /\ gret' = Some(Ok(Dedup(Sort(res))))
    /\ gpc' = "done"
    /\ UNCHANGED <<text, gop, outcome, lineNo, res>>
    /\ UNCHANGED <<gatewayVars, fetchVars>>

GpgNext ==
    \/ \E o \in Outcomes : Available(o)
    \/ \E o \in Outcomes : VersionLine(o)
    \/ \E o \in Outcomes : ListSecretFingerprints(o)
    \/ ParseLine
    \/ ParseFinish

-----------------------------------------------------------------------------
(* Idle values of the components a specification does not run.             *)

FetchIdle ==
    /\ nmsgs = 0
    /\ limit = 0
    /\ out = <<>>
    /\ before = None
    /\ fpc = "idle"
    /\ fret = None
    /\ requests = <<>>
    /\ quirksLeft = 0

GpgIdle ==
    /\ text = <<>>
    /\ gpc = "idle"
    /\ gop = "none"
    /\ outcome = "none"
    /\ lineNo = 0
    /\ res = <<>>
    /\ gret = None

GatewayIdle ==
    /\ tpc = "idle"
    /\ pos = 0
    /\ lastItem = "none"
    /\ pending = None
    /\ queue = <<>>
    /\ txDropped = FALSE
    /\ rxClosed = FALSE
    /\ errors = 0
    /\ created = <<>>
    /\ received = <<>>
    /\ dropped = <<>>
    /\ gotEnd = FALSE

GatewaySpecInit == GatewayInit /\ FetchIdle /\ GpgIdle

GatewaySpec == GatewaySpecInit /\ [][GatewayNext]_vars

\* A consumer that keeps receiving: a recv() that can complete does.
GatewayFairSpec == GatewaySpec /\ WF_vars(ConsumerRecv)

FetchSpecInit == FetchInit /\ GatewayIdle /\ GpgIdle

FetchSpec == FetchSpecInit /\ [][FetchNext]_vars

UnreliableFetchSpecInit == UnreliableFetchInit /\ GatewayIdle /\ GpgIdle

UnreliableFetchSpec == UnreliableFetchSpecInit /\ [][FetchNext]_vars

GpgSpecInit == GpgInit /\ GatewayIdle /\ FetchIdle

GpgSpec == GpgSpecInit /\ [][GpgNext]_vars

-----------------------------------------------------------------------------
(* Properties                                                              *)

\* ---- fetch_messages

\* The ChatEvents of the c newest messages of the channel, oldest first.
NewestChronological(c) ==
    [i \in 1..c |-> convert_message_create(Message(nmsgs - c + i))]

RECURSIVE GotBefore(_)
\* Number of messages the requests before the i-th returned.
GotBefore(i) == IF i <= 1 THEN 0 ELSE GotBefore(i - 1) + requests[i - 1].got

FetchReturnedOk == fpc = "done" /\ fret[1].ok

\* C1: with limit C > 100 and a channel of at least C messages, a fetch in
\* which every request succeeds issues more than one request, the first
\* without anchor and each later one anchored before the oldest id seen so
\* far, and returns exactly the C newest messages of the channel, oldest
\* first (so none is duplicated or skipped where two batches meet).
C1_PagedFetchReturnsNewest ==
    (limit > PageMax /\ nmsgs >= limit /\ FetchReturnedOk) =>
        /\ Len(requests) > 1
        /\ requests[1].before = None
        /\ \A i \in 2..Len(requests) :
              requests[i].before = Some(nmsgs + 1 - GotBefore(i))
        /\ Len(fret[1].val) = limit
        /\ fret[1].val = NewestChronological(limit)

\* A fetch of more than two full pages has returned.
C1_Witness ==
    /\ limit > 2 * PageMax
    /\ nmsgs >= limit
    /\ FetchReturnedOk
    /\ Len(requests) = 3

\* C2: with fewer messages in the channel than the limit asks for, the
\* fetch ends after a bounded number of requests, the first empty batch is
\* the last request, and when no request failed it returns Ok with all
\* messages of the channel, oldest first.
C2_ShortHistoryReturnsAll ==
    nmsgs < limit =>
        /\ Len(requests) <= (nmsgs \div PageMax) + 2
        /\ fpc = "loop" => ENABLED FetchNext
        /\ \A i \in 1..Len(requests) :
              (requests[i].ok /\ requests[i].got = 0) =>
                  i = Len(requests) /\ FetchReturnedOk
        /\ (fpc = "done" /\ requests[Len(requests)].ok) =>
              /\ requests[Len(requests)].got = 0
              /\ fret[1].ok
              /\ fret[1].val = NewestChronological(nmsgs)

\* A channel of more than one page, shorter than the limit, was fetched.
C2_Witness ==
    /\ nmsgs < limit
    /\ nmsgs > PageMax
    /\ FetchReturnedOk
    /\ Len(fret[1].val) = nmsgs

\* C7: a failed request, at whichever page, is the last request (no retry,
\* no further request) and the fetch returns an error, not the messages
\* accumulated from the earlier pages.
C7_FailedRequestAbortsFetch ==
    \A i \in 1..Len(requests) :
        ~requests[i].ok =>
            /\ i = Len(requests)
            /\ fpc = "done"
            /\ ~fret[1].ok

\* The third request failed after two pages had been accumulated.
C7_Witness ==
    /\ Len(requests) = 3
    /\ ~requests[3].ok
    /\ Len(out) = 2 * PageMax
    /\ fpc = "done"
    /\ fret[1].err = "Discord HTTP model error"

\* ---- start_gateway

\* C4 as stated: the send never waits for the consumer, so a task inside
\* tx.send can always complete it at once.
C4_SendNeverWaits == tpc = "send" => ENABLED SendCompletes

\* C4 (amended): the send into the bounded queue suspends the task. While
\* the queue is full and the receiver is open the task stays in the send
\* with its event, takes no further stream item and drops nothing; an event
\* is discarded only when the send fails because the receiver is closed.
C4_SendWaitsForSlot ==
    [][/\ (tpc = "send" /\ ~rxClosed /\ Len(queue) >= Capacity) =>
              /\ tpc' = "send"
              /\ pending' = pending
              /\ pos' = pos
              /\ dropped' = dropped
       /\ dropped' # dropped => rxClosed]_vars

\* The task is suspended in the send on a full queue whose receiver is open,
\* after the consumer has already taken an event.
C4_Witness ==
    /\ tpc = "send"
    /\ ~rxClosed
    /\ Len(queue) = Capacity
    /\ received # <<>>

\* C5: the task becomes Ended only in the step that takes the end of the
\* stream; the step that takes a receive error logs it, leaves the task
\* waiting for the next item and puts nothing in the queue.
C5_EndsOnlyAtStreamEnd ==
    [][/\ (tpc # "ended" /\ tpc' = "ended") => (lastItem' = "end" /\ pos' = pos)
       /\ (pos' # pos /\ lastItem' = "error") =>
              /\ tpc' = "next"
              /\ errors' = errors + 1
              /\ queue' = queue
              /\ pending' = None
              /\ created' = created]_vars

\* Every item so far was a receive error and the task still runs.
C5_Witness ==
    /\ errors = MaxItems
    /\ pos = MaxItems
    /\ tpc = "next"
    /\ queue = <<>>

\* Position in the stream of the MessageCreate an event was built from
\* (Message gives every message its own content).
StreamPos(ev) == ev.content

\* C6: what the consumer has received, followed by what is still buffered,
\* is in the order in which the events came from the stream.
C6_ForwardedInStreamOrder ==
    LET seen == received \o queue
    IN \A i, j \in 1..Len(seen) :
          i < j => StreamPos(seen[i]) < StreamPos(seen[j])

\* The consumer has received more events than the queue holds at once.
C6_Witness == Len(received) > Capacity /\ queue # <<>>

\* C10: recv() can complete exactly when an event is buffered or the task
\* has ended; the ended task has closed the queue; the end-of-queue signal
\* comes only after every forwarded event was received; and a consumer that
\* keeps receiving after the stream has ended reaches that signal.
C10_ConsumerReachesEnd ==
    /\ []((~rxClosed /\ ~gotEnd) =>
            (ENABLED ConsumerRecv <=> (queue # <<>> \/ tpc = "ended")))
    /\ []((tpc = "ended" <=> txDropped) /\ (lastItem = "end" => tpc = "ended"))
    /\ [](gotEnd => (tpc = "ended" /\ queue = <<>> /\ received = created))
    /\ ((tpc = "ended" /\ ~rxClosed) ~> (gotEnd \/ rxClosed))

\* The stream has ended and the consumer got the buffered events and then
\* the end of the queue.
C10_Witness ==
    /\ gotEnd
    /\ ~rxClosed
    /\ Len(received) > Capacity
    /\ received = created

\* ---- gpg.rs

IsColon(c) == c = ":"

\* positions of the colons of a line
ColonsAt(line) == {i \in 1..Len(line) : IsColon(line[i])}

NumFields(line) == Cardinality(ColonsAt(line)) + 1

HasFprPrefix(line) ==
    Len(line) >= 4 /\ line[1] = "f" /\ line[2] = "p" /\ line[3] = "r"
    /\ IsColon(line[4])

\* the text between the 9th colon and the next colon or the end of the line
TenthField(line) ==
    LET ninth == CHOOSE i \in ColonsAt(line) :
                    Cardinality({j \in ColonsAt(line) : j <= i}) = 9
        later == {j \in ColonsAt(line) : j > ninth}
        stop == IF later = {} THEN Len(line) + 1
                ELSE CHOOSE j \in later : \A k \in later : j <= k
    IN SubSeq(line, ninth + 1, stop - 1)

\* the lines of the text that start with "fpr:" and have a 10th field
FprRecords ==
    {l \in Range(Lines(text)) : HasFprPrefix(l) /\ NumFields(l) >= 10}

StrictlyAscending(list) ==
    \A i \in 1..(Len(list) - 1) : StrLess(list[i], list[i + 1])

ListReturnedOk ==
    gop = "list_secret_fingerprints" /\ gpc = "done" /\ gret[1].ok

\* C3 as stated: the list holds exactly the non-blank 10th-field values of
\* the "fpr:" lines, each once, ascending.
C3_ListsTenthFields ==
    ListReturnedOk =>
        /\ StrictlyAscending(gret[1].val)
        /\ Range(gret[1].val) =
              {TenthField(l) : l \in FprRecords} \ {f \in {TenthField(l) : l \in FprRecords} : Trim(f) = <<>>}

\* C3 (amended): the list holds exactly the non-blank 10th-field values of
\* the "fpr:" lines with the surrounding whitespace trimmed, each once,
\* ascending.
C3_ListsTrimmedTenthFields ==
    ListReturnedOk =>
        /\ StrictlyAscending(gret[1].val)
        /\ Range(gret[1].val) =
              {Trim(TenthField(l)) : l \in FprRecords} \ {<<>>}

\* Three records, out of order and with a duplicate, gave two fingerprints.
C3_Witness ==
    /\ ListReturnedOk
    /\ Len(res) = 3
    /\ StrLess(res[3], res[1])
    /\ Len(gret[1].val) = 2

\* C8: available() is Ok(true) when gpg ran and exited zero, Ok(false) when
\* it was not found, and an error for every other failure to run it.
C8_AvailableOutcomes ==
    (gop = "available" /\ gpc = "done") =>
        /\ outcome = "exit_zero" => gret[1] = Ok(TRUE)
        /\ outcome = "not_found" => gret[1] = Ok(FALSE)
        /\ outcome \in {"permission_denied", "other_io_error"} => ~gret[1].ok

\* available() was called where gpg is not on the search path.
C8_Witness ==
    /\ gop = "available"
    /\ gpc = "done"
    /\ outcome = "not_found"
    /\ gret[1] = Ok(FALSE)

\* a line the claim says contributes nothing
Skipped(line) ==
    \/ ~HasFprPrefix(line)
    \/ NumFields(line) < 10
    \/ TenthField(line) = <<>>

\* C9: the loop turn for a line that lacks the "fpr:" prefix, or has it but
\* fewer than 10 fields or an empty 10th field, pushes nothing and goes on
\* to the next line; the parse of any text ends with an Ok list.
C9_SkippedLinesPushNothing ==
    /\ [][(gpc = "parsing" /\ lineNo' = lineNo + 1
             /\ Skipped(Lines(text)[lineNo + 1])) =>
                (res' = res /\ gpc' = "parsing")]_vars
    /\ []((gop = "list_secret_fingerprints" /\ outcome = "exit_zero"
             /\ gpc = "done") => gret[1].ok)

\* A short record, a record with an empty 10th field and a uid line were
\* parsed, and the list returned is empty.
C9_Witness ==
    /\ ListReturnedOk
    /\ lineNo = 3
    /\ HasFprPrefix(Lines(text)[1]) /\ NumFields(Lines(text)[1]) < 10
    /\ HasFprPrefix(Lines(text)[2]) /\ NumFields(Lines(text)[2]) >= 10
    /\ TenthField(Lines(text)[2]) = <<>>
    /\ ~HasFprPrefix(Lines(text)[3])
    /\ TenthField(Lines(text)[3]) # <<>>
    /\ gret[1].val = <<>>

\* the characters of a text before its first line end ("\n" or "\r\n"); the
\* whole text when it has none
BeforeFirstLineEnd(t) ==
    LET ends == {i \in 1..Len(t) : t[i] = "\n"}
        stop == IF ends = {} THEN Len(t) + 1
                ELSE CHOOSE i \in ends : \A j \in ends : i <= j
        cut == IF stop > 1 /\ stop <= Len(t) /\ t[stop - 1] = "\r"
                 THEN stop - 1 ELSE stop
    IN SubSeq(t, 1, cut - 1)

\* C11: version_line() and list_secret_fingerprints() return an error, not
\* a default or empty Ok value, when gpg could not be run (not found
\* included) and when it exited non-zero; after a zero exit version_line()
\* returns the first line of standard output, the empty string when the
\* output is empty.
C11_FailuresAreErrors ==
    /\ (gop \in {"version_line", "list_secret_fingerprints"} /\ gpc = "done"
          /\ outcome # "exit_zero") => ~gret[1].ok
    /\ (gop \in {"version_line", "list_secret_fingerprints"}
          /\ outcome # "exit_zero") => gpc = "done"
    /\ (gop = "version_line" /\ outcome = "exit_zero") =>
          /\ gpc = "done"
          /\ gret[1] = Ok(BeforeFirstLineEnd(text))
          /\ text = <<>> => gret[1] = Ok(<<>>)

\* version_line() returned the first of several lines gpg wrote.
C11_Witness ==
    /\ gop = "version_line"
    /\ outcome = "exit_zero"
    /\ gpc = "done"
    /\ Len(Lines(text)) = MaxLines
    /\ gret[1].ok
    /\ gret[1].val # <<>>
    /\ Len(gret[1].val) < Len(text)

\* ---- fetch_messages against an unreliable source

\* smallest id the answers before the i-th request held (i > 1)
OldestBefore(i) ==
    LET ids == {requests[j].oldest : j \in 1..(i - 1)}
    IN CHOOSE m \in ids : \A k \in ids : m <= k

NewestFirstBefore(i) == \A j \in 1..(i - 1) : requests[j].kind # "reversed"

\* C12: every request asks for min(limit - accumulated count, 100)
\* messages, a number in 1..100; the first request has no anchor; every
\* later one is anchored before the id of the last element of the batch
\* before it, which is the oldest id seen so far when all batches so far
\* came newest first.
C12_RequestSizesAndAnchors ==
    \A i \in 1..Len(requests) :
        /\ requests[i].limit =
              (IF limit - GotBefore(i) < PageMax
                 THEN limit - GotBefore(i) ELSE PageMax)
        /\ requests[i].limit \in 1..PageMax
        /\ i = 1 => requests[i].before = None
        /\ i > 1 =>
              /\ requests[i].before = Some(requests[i - 1].last)
              /\ NewestFirstBefore(i) =>
                    requests[i].before = Some(OldestBefore(i))

\* A full page, then a short page, then a third request anchored at the
\* short page's last message and asking for a full page again.
C12_Witness ==
    /\ Len(requests) >= 3
    /\ requests[1].kind = "full"
    /\ requests[2].kind = "short"
    /\ requests[2].got = 1
    /\ requests[3].before = Some(requests[2].last)
    /\ requests[3].limit = PageMax

NonEmptyAnswers ==
    Cardinality({i \in 1..Len(requests) : requests[i].ok /\ requests[i].got > 0})

EmptyAnswers ==
    Cardinality({i \in 1..Len(requests) : requests[i].ok /\ requests[i].got = 0})

\* C15: whatever the source answers, the fetch returns: a fetch that has
\* not returned can always take its next step, every step issues one more
\* request or returns, and the requests are bounded, since every non-empty
\* batch makes the accumulated count larger: at most `limit` requests get a
\* non-empty batch and at most one an empty batch, and a failed request is
\* the last. With limit 0 no request is issued and the empty list is
\* returned.
C15_FetchTerminates ==
    /\ [](fpc = "done" \/ ENABLED FetchNext)
    /\ [][fpc' = "done" \/ Len(requests') = Len(requests) + 1]_vars
    /\ [](Len(requests) <= limit + 1)
    /\ [](/\ NonEmptyAnswers <= limit
          /\ NonEmptyAnswers <= Len(out)
          /\ EmptyAnswers <= 1)
    /\ [](limit = 0 =>
            /\ requests = <<>>
            /\ fpc = "done" => fret[1] = [ok |-> TRUE, val |-> <<>>])
    /\ [][(requests' # requests /\ requests'[Len(requests')].got > 0) =>
              Len(out') > Len(out)]_vars

\* Every request of a returned fetch got a non-empty batch, one message at
\* a time where the source answered short: as many requests as the limit.
C15_Witness ==
    /\ fpc = "done"
    /\ limit >= 3
    /\ NonEmptyAnswers = limit
    /\ EmptyAnswers = 0

NoOverlongAnswer ==
    \A i \in 1..Len(requests) :
        requests[i].ok => requests[i].got <= requests[i].limit

\* C16: the returned list holds every message received, none cut off, and
\* so has at most `limit` elements when no answer held more messages than
\* its request asked for.
C16_ResultWithinLimit ==
    FetchReturnedOk =>
        /\ Len(fret[1].val) = GotBefore(Len(requests) + 1)
        /\ NoOverlongAnswer => Len(fret[1].val) <= limit

\* Three pages, one of them short, filled the limit exactly.
C16_Witness ==
    /\ FetchReturnedOk
    /\ NoOverlongAnswer
    /\ Len(requests) >= 3
    /\ \E i \in 1..Len(requests) : requests[i].kind = "short"
    /\ Len(fret[1].val) = limit
    /\ limit > PageMax

\* ---- start_gateway after the consumer dropped the receiver

\* C13: once the receiver is dropped the task still runs: it is never
\* blocked, it becomes Ended only in the step that takes the end of the
\* stream, and each send it is in completes by discarding the event and
\* going back to the stream.
C13_TaskOutlivesReceiver ==
    /\ []((rxClosed /\ tpc # "ended") =>
            ENABLED ((\E item \in ItemKinds : TaskNextEvent(item))
                        \/ SendCompletes))
    /\ [][rxClosed =>
            /\ (tpc # "ended" /\ tpc' = "ended") =>
                  (tpc = "next" /\ lastItem' = "end")
            /\ (tpc = "send" /\ tpc' # "send") =>
                  /\ tpc' = "next"
                  /\ dropped' = Append(dropped, pending[1])
            /\ queue' = <<>>]_vars

\* The receiver was dropped, events were discarded after that, and the task
\* ended on the end of the stream.
C13_Witness ==
    /\ rxClosed
    /\ Len(dropped) >= 2
    /\ tpc = "ended"
    /\ lastItem = "end"

\* C14: while the receiver is open no event is lost: what was received,
\* what is buffered and the event being sent are together exactly the
\* MessageCreate events of the stream so far, in order; the queue never
\* holds more than its capacity; the task inside a send on a full queue
\* takes no stream item; and an item that is not a MessageCreate puts
\* nothing in the queue.
C14_NoEventLostWhileReceiverOpen ==
    /\ [](~rxClosed =>
            /\ dropped = <<>>
            /\ received \o queue \o pending = created
            /\ Len(queue) <= Capacity
            /\ tpc = "ended" => received \o queue = created)
    /\ [][/\ (tpc = "send" /\ ~rxClosed /\ Len(queue) = Capacity) =>
                 (pos' = pos /\ created' = created)
          /\ (pos' # pos /\ lastItem' # "message_create") =>
                 (queue' = queue /\ pending' = pending /\ created' = created)
         ]_vars

\* Every item of the stream was a MessageCreate and the consumer, with the
\* receiver still open, got all of them and then the end of the queue.
C14_Witness ==
    /\ ~rxClosed
    /\ gotEnd
    /\ pos = MaxItems
    /\ Len(received) = MaxItems

====
